---- MODULE Spec2Model ----
(***************************************************************************)
(* SumPrime.c / SumPrime.cpp: sum of the primes below one million by trial *)
(* division, with a timer around the loop and two lines of output.         *)
(*                                                                         *)
(* Two specifications:                                                     *)
(*   Spec      a run of main, one action per statement and one per loop    *)
(*             iteration; a call of is_prime is evaluated as a whole.      *)
(*   SpecPrime one call of is_prime, one action per evaluation of the      *)
(*             entry test, of the loop condition and of the loop body.     *)
(***************************************************************************)
EXTENDS Integers, Sequences, FiniteSets, TLC

VARIABLES
  prog,       \* which program runs: "c" (SumPrime.c) or "cpp" (SumPrime.cpp)
  pc,         \* position in main
  i,          \* main's loop variable (int)
  sum,        \* main's accumulator (long long), four 16-bit limbs, low first
  overflow,   \* TRUE once sum += i overflowed long long (undefined behaviour)
  start,      \* first timestamp, in clock ticks; NoTime before it is taken
  end,        \* second timestamp
  out,        \* the lines written to standard output, in order
  n,          \* is_prime's argument
  ip,         \* is_prime's loop variable i
  ret,        \* is_prime's return value
  fpc,        \* position in is_prime
  sqrtEvals,  \* how often the call evaluated sqrt(n)
  remEvals    \* how often the call evaluated n % i

mainVars  == << prog, pc, i, sum, overflow, start, end, out >>
primeVars == << n, ip, ret, fpc, sqrtEvals, remEvals >>
vars      == << prog, pc, i, sum, overflow, start, end, out,
                n, ip, ret, fpc, sqrtEvals, remEvals >>

(***************************************************************************)
(* Program constants                                                       *)
(***************************************************************************)
\* for (int i = 2; i < 1000000; i++)
Limit == 1000000

\* Ticks per second of the timestamps.  CLOCKS_PER_SEC is implementation
\* defined; the model reads both programs' clocks in milliseconds.
CLOCKS_PER_SEC == 1000

\* Largest int.
INT_MAX == 2147483647

(***************************************************************************)
(* Bounds of the model                                                     *)
(***************************************************************************)
\* The first timestamp is one of 0..MaxStart (ticks are counted from about
\* the first reading; only end - start is ever used).
MaxStart == 0
\* The loop takes 0..MaxElapsed ticks.
MaxElapsed == 1250
\* SpecPrime calls is_prime on each of -MaxNeg..MaxN.
MaxNeg == 4
MaxN == 1100
\* Loop heads up to which the accumulator is compared with the sum of the
\* primes computed from the definition of a prime.
PrefixCheck == 60

\* No timestamp taken yet.
NoTime == 0 - 1

(***************************************************************************)
(* long long: 64 bits as four 16-bit limbs, least significant first.       *)
(***************************************************************************)
Limb == 2 ^ 16

Zero64 == << 0, 0, 0, 0 >>

\* The long long with the value of the non-negative int v.
FromInt(v) == << v % Limb, v \div Limb, 0, 0 >>

\* s + v on the low 32 bits only.
Add32(s, v) ==
  LET a0 == s[1] + (v % Limb)
      a1 == s[2] + (v \div Limb) + (a0 \div Limb)
  IN  << a0 % Limb, a1 % Limb, s[3], s[4] >>

\* s + v on 64 bits, v a non-negative int; the carry out of bit 63 is dropped.
Add64(s, v) ==
  LET a0 == s[1] + (v % Limb)
      a1 == s[2] + (v \div Limb) + (a0 \div Limb)
      a2 == s[3] + (a1 \div Limb)
      a3 == s[4] + (a2 \div Limb)
  IN  << a0 % Limb, a1 % Limb, a2 % Limb, a3 % Limb >>

\* Bit 63, the sign of a long long.
IsNeg64(s) == s[4] >= Limb \div 2

\* sum += i overflows when a non-negative sum turns negative.
AddOverflows(s, v) == ~IsNeg64(s) /\ IsNeg64(Add64(s, v))

\* Variant of Accumulate: sum += i with an accumulator of 32 bits (int sum).
AccumulateInt(s, v) ==
  LET t == Add32(s, v)
  IN  [val |-> t, ovf |-> s[2] < Limb \div 2 /\ t[2] >= Limb \div 2]

\* sum += i: the new value, and whether the addition overflowed long long.
Accumulate(s, v) == [val |-> Add64(s, v), ovf |-> AddOverflows(s, v)]

\* s <= t as non-negative 64-bit values.
Leq64(s, t) ==
  \/ s[4] < t[4]
  \/ s[4] = t[4] /\ s[3] < t[3]
  \/ s[4] = t[4] /\ s[3] = t[3] /\ s[2] < t[2]
  \/ s[4] = t[4] /\ s[3] = t[3] /\ s[2] = t[2] /\ s[1] <= t[1]

\* -s on 64 bits.
Neg64(s) ==
  Add64(<< Limb - 1 - s[1], Limb - 1 - s[2], Limb - 1 - s[3], Limb - 1 - s[4] >>, 1)

(***************************************************************************)
(* sqrt and the loop bound of is_prime                                     *)
(***************************************************************************)
RECURSIVE newton(_, _)
\* Integer Newton iteration from a start x >= floor(sqrt(v)), v >= 1.
newton(v, x) ==
  LET y == (x + v \div x) \div 2
  IN  IF y >= x THEN x ELSE newton(v, y)

\* A power of two above the square root of v, 1 <= v <= INT_MAX.
SqrtStart(v) ==
  IF v < 16 THEN 4
  ELSE IF v < 256 THEN 16
  ELSE IF v < 4096 THEN 64
  ELSE IF v < 65536 THEN 256
  ELSE IF v < 1048576 THEN 1024
  ELSE IF v < 16777216 THEN 4096
  ELSE IF v < 268435456 THEN 16384
  ELSE 65536

\* The largest k with k * k <= v, for 0 <= v <= INT_MAX.
FloorSqrt(v) == IF v = 0 THEN 0 ELSE newton(v, SqrtStart(v))

\* Variant of sqrt: a root that comes out just below k at the square k * k.
sqrt_below(x) ==
  IF x < 0
    THEN [nan |-> TRUE, whole |-> 0, exact |-> FALSE]
    ELSE LET k == FloorSqrt(x)
         IN  IF k * k = x /\ k > 0
               THEN [nan |-> FALSE, whole |-> k - 1, exact |-> FALSE]
               ELSE [nan |-> FALSE, whole |-> k, exact |-> FALSE]

\* sqrt(n): the double nearest the square root of the int n (IEEE 754 sqrt is
\* correctly rounded), as its integer part and whether it is an integer.
\* The root of a perfect square k * k is k exactly.  The root of any other
\* int lies at least 1 / (2 * 46341) from an integer, a double near 46341 is
\* within 2^-37 of the real it rounds, so rounding never reaches k + 1.
\* sqrt of a negative number is NaN.
sqrt(x) ==
  IF x < 0
    THEN [nan |-> TRUE, whole |-> 0, exact |-> FALSE]
    ELSE LET k == FloorSqrt(x)
         IN  [nan |-> FALSE, whole |-> k, exact |-> k * k = x]

\* i <= sqrt(n): the int is converted to double; a comparison with NaN is
\* false; an integer is at most a double iff it is at most its integer part.
LeqSqrt(j, x) ==
  LET r == sqrt(x)
  IN  ~r.nan /\ j <= r.whole

(***************************************************************************)
(* is_prime                                                                *)
(***************************************************************************)
\* Variant of EntryReject: n < 1.
EntryRejectStrict(x) == x < 1

\* Variant of EntryReject: n <= 2.
EntryRejectTwo(x) == x <= 2

\* if (n <= 1) return 0;
EntryReject(x) == x <= 1

\* is_prime(n) as a whole: after the entry test, i runs over 2, 3, ... while
\* i <= sqrt(n), and the first i dividing n ends the call with 0.
is_prime(x) ==
  IF EntryReject(x)
    THEN FALSE
    ELSE LET r == sqrt(x)
         IN  r.nan \/ \A j \in 2..r.whole : x % j # 0

\* is_prime is pure: its values on the candidates of main, evaluated once.
Accepted == { c \in 2..(Limit - 1) : is_prime(c) }

\* if (is_prime(i))
Accepts(c) == IF c \in 2..(Limit - 1) THEN c \in Accepted ELSE is_prime(c)

(***************************************************************************)
(* Output formatting                                                       *)
(***************************************************************************)
\* s divided by ten: quotient and remainder, by long division from the top.
DivMod10(s) ==
  LET t4 == s[4]
      t3 == (t4 % 10) * Limb + s[3]
      t2 == (t3 % 10) * Limb + s[2]
      t1 == (t2 % 10) * Limb + s[1]
  IN  [q |-> << t1 \div 10, t2 \div 10, t3 \div 10, t4 \div 10 >>, r |-> t1 % 10]

RECURSIVE Digits(_)
\* The decimal digits of a positive 64-bit value, most significant first.
Digits(s) ==
  IF s = Zero64 THEN << >>
  ELSE LET dm == DivMod10(s) IN Append(Digits(dm.q), dm.r)

\* %lld, and operator<< of a long long: the decimal digits, "-" before a
\* negative value.
ToDecimal(s) ==
  IF s = Zero64 THEN << 0 >>
  ELSE IF IsNeg64(s) THEN << "-" >> \o Digits(Neg64(s))
  ELSE Digits(s)

\* printf("Sum: %lld\n", sum);   cout << "Sum: " << sum << "\n";
SumLine(s) == [label |-> "Sum", text |-> ToDecimal(s)]

\* t ticks in hundredths of a second, rounded to nearest.  At a decimal tie
\* the double nearest t / CLOCKS_PER_SEC lies on one side or the other of it,
\* which the model leaves open.
Hundredths(t) ==
  LET q == (t * 100) \div CLOCKS_PER_SEC
      r == (t * 100) % CLOCKS_PER_SEC
  IN  IF 2 * r < CLOCKS_PER_SEC THEN { q }
      ELSE IF 2 * r > CLOCKS_PER_SEC THEN { q + 1 }
      ELSE { q, q + 1 }

\* printf("Time: %.2f seconds\n", (double)(end - start)/CLOCKS_PER_SEC);
TimeLinesC(t) ==
  { [label |-> "Time",
     whole |-> ToDecimal(FromInt(h \div 100)),
     frac  |-> << (h \div 10) % 10, h % 10 >>,
     unit  |-> "seconds"] : h \in Hundredths(t) }

RECURSIVE StripZeros(_)
\* A digit sequence without its trailing zeros.
StripZeros(ds) ==
  IF ds # << >> /\ ds[Len(ds)] = 0
    THEN StripZeros(SubSeq(ds, 1, Len(ds) - 1))
    ELSE ds

\* cout << elapsed.count(): the default format of a double, six significant
\* digits, trailing zeros and a bare decimal point dropped.  For a duration of
\* t milliseconds below 1000 seconds the six digits hold the value exactly, and
\* its decimal exponent is between -3 and 2, so the notation is fixed.
TimeLinesCpp(t) ==
  LET ms == ((t % CLOCKS_PER_SEC) * 1000) \div CLOCKS_PER_SEC
  IN  { [label |-> "Time",
         whole |-> ToDecimal(FromInt(t \div CLOCKS_PER_SEC)),
         frac  |-> StripZeros(<< ms \div 100, (ms \div 10) % 10, ms % 10 >>),
         unit  |-> "seconds"] }

TimeLines(p, t) == IF p = "c" THEN TimeLinesC(t) ELSE TimeLinesCpp(t)

(***************************************************************************)
(* main                                                                    *)
(***************************************************************************)
\* Variant of LoopGuard: the bound with a zero dropped.
LoopGuardShort(c) == c < Limit \div 10

\* i < 1000000
LoopGuard(c) == c < Limit

\* Variant of TakeStart: no timestamp before the loop.
TakeStartSkipped ==
  /\ pc = "start"
  /\ pc' = "init"
  /\ UNCHANGED << prog, i, sum, overflow, start, end, out, primeVars >>

\* clock_t start = clock();   auto start = high_resolution_clock::now();
TakeStart ==
  /\ pc = "start"
  /\ \E t \in 0..MaxStart : start' = t
  /\ pc' = "init"
  /\ UNCHANGED << prog, i, sum, overflow, end, out, primeVars >>

\* Variant of InitLoop: the loop starts at 3.
InitLoopAtThree ==
  /\ pc = "init"
  /\ sum' = Zero64
  /\ i' = 3
  /\ pc' = "loop"
  /\ UNCHANGED << prog, overflow, start, end, out, primeVars >>

\* long long sum = 0;  for (int i = 2; ...
InitLoop ==
  /\ pc = "init"
  /\ sum' = Zero64
  /\ i' = 2
  /\ pc' = "loop"
  /\ UNCHANGED << prog, overflow, start, end, out, primeVars >>

\* Variant of LoopStep: sum = i in place of sum += i.
LoopStepAssign ==
  /\ pc = "loop"
  /\ LoopGuard(i)
  /\ sum' = IF Accepts(i) THEN FromInt(i) ELSE sum
  /\ overflow' = overflow
  /\ i' = i + 1
  /\ UNCHANGED << prog, pc, start, end, out, primeVars >>

\* One iteration: i < 1000000 holds; if (is_prime(i)) sum += i; i++
LoopStep ==
  /\ pc = "loop"
  /\ LoopGuard(i)
  /\ IF Accepts(i)
       THEN /\ sum' = Accumulate(sum, i).val
            /\ overflow' = (overflow \/ Accumulate(sum, i).ovf)
       ELSE UNCHANGED << sum, overflow >>
  /\ i' = i + 1
  /\ UNCHANGED << prog, pc, start, end, out, primeVars >>

\* Variant of LoopExit: the loop may end at any candidate.
LoopExitAnyTime ==
  /\ pc = "loop"
  /\ pc' = "stop"
  /\ UNCHANGED << prog, i, sum, overflow, start, end, out, primeVars >>

\* i < 1000000 fails: the loop ends.
LoopExit ==
  /\ pc = "loop"
  /\ ~LoopGuard(i)
  /\ pc' = "stop"
  /\ UNCHANGED << prog, i, sum, overflow, start, end, out, primeVars >>

\* clock_t end = clock();   auto end = high_resolution_clock::now();
TakeEnd ==
  /\ pc = "stop"
  /\ \E e \in 0..MaxElapsed : end' = start + e
  /\ pc' = "print_sum"
  /\ UNCHANGED << prog, i, sum, overflow, start, out, primeVars >>

\* The first line of output.
PrintSum ==
  /\ pc = "print_sum"
  /\ out' = Append(out, SumLine(sum))
  /\ pc' = "print_time"
  /\ UNCHANGED << prog, i, sum, overflow, start, end, primeVars >>

\* The second line of output.
PrintTime ==
  /\ pc = "print_time"
  /\ \E line \in TimeLines(prog, end - start) : out' = Append(out, line)
  /\ pc' = "done"
  /\ UNCHANGED << prog, i, sum, overflow, start, end, primeVars >>

\* The state before main's first statement; is_prime has no call in progress.
Init ==
  /\ prog \in {"c", "cpp"}
  /\ pc = "start"
  /\ i = 0
  /\ sum = Zero64
  /\ overflow = FALSE
  /\ start = NoTime
  /\ end = NoTime
  /\ out = << >>
  /\ n = 0 /\ ip = 0 /\ ret = FALSE /\ fpc = "idle"
  /\ sqrtEvals = 0 /\ remEvals = 0

Next ==
  \/ TakeStart
  \/ InitLoop
  \/ LoopStep
  \/ LoopExit
  \/ TakeEnd
  \/ PrintSum
  \/ PrintTime

Spec == Init /\ [][Next]_vars

(***************************************************************************)
(* One call of is_prime, statement by statement                            *)
(***************************************************************************)
\* if (n <= 1) return 0;  otherwise  int i = 2
PrimeEntry ==
  /\ fpc = "entry"
  /\ IF EntryReject(n)
       THEN ret' = FALSE /\ fpc' = "ret" /\ ip' = ip
       ELSE ip' = 2 /\ fpc' = "test" /\ ret' = ret
  /\ UNCHANGED << n, sqrtEvals, remEvals, mainVars >>

\* i <= sqrt(n): sqrt is evaluated again on every test; return 1 when it fails
PrimeTest ==
  /\ fpc = "test"
  /\ sqrtEvals' = sqrtEvals + 1
  /\ IF LeqSqrt(ip, n)
       THEN fpc' = "body" /\ ret' = ret
       ELSE ret' = TRUE /\ fpc' = "ret"
  /\ UNCHANGED << n, ip, remEvals, mainVars >>

\* if (n % i == 0) return 0;  otherwise  i++
PrimeBody ==
  /\ fpc = "body"
  /\ remEvals' = remEvals + 1
  /\ IF n % ip = 0
       THEN ret' = FALSE /\ fpc' = "ret" /\ ip' = ip
       ELSE ip' = ip + 1 /\ fpc' = "test" /\ ret' = ret
  /\ UNCHANGED << n, sqrtEvals, mainVars >>

\* is_prime entered with an argument of -MaxNeg..MaxN, in either program.
InitPrime ==
  /\ prog \in {"c", "cpp"}
  /\ pc = "call"
  /\ i = 0
  /\ sum = Zero64
  /\ overflow = FALSE
  /\ start = NoTime
  /\ end = NoTime
  /\ out = << >>
  /\ n \in (0 - MaxNeg)..MaxN
  /\ ip = 0 /\ ret = FALSE /\ fpc = "entry"
  /\ sqrtEvals = 0 /\ remEvals = 0

NextPrime ==
  \/ PrimeEntry
  \/ PrimeTest
  \/ PrimeBody

SpecPrime == InitPrime /\ [][NextPrime]_vars

(***************************************************************************)
(* Reference notions the properties are stated with                        *)
(***************************************************************************)
\* floor(sqrt(x)) by its definition.
RefFloorSqrt(x) == CHOOSE k \in 0..x : k * k <= x /\ x < (k + 1) * (k + 1)

\* No integer of 2..floor(sqrt(x)) divides x.
NoSmallDivisor(x) == \A k \in 2..RefFloorSqrt(x) : x % k # 0

\* x is prime, by the definition of a prime.
RefPrime(x) == x > 1 /\ \A k \in 2..(x - 1) : x % k # 0

RECURSIVE RefPrimeSum(_)
\* The sum of all primes p with 2 <= p < x.
RefPrimeSum(x) ==
  IF x <= 2 THEN 0
  ELSE RefPrimeSum(x - 1) + (IF RefPrime(x - 1) THEN x - 1 ELSE 0)

\* main is past its loop.
AfterLoop == pc \in {"stop", "print_sum", "print_time", "done"}

(***************************************************************************)
(* Properties                                                              *)
(***************************************************************************)

\* C1: when main has finished its loop, in the C and in the C++ program, the
\* accumulator is 37550402023, the sum of the primes below 1,000,000.
C1_FinalSum ==
  AfterLoop => ToDecimal(sum) = << 3, 7, 5, 5, 0, 4, 0, 2, 0, 2, 3 >>

C1_Witness == pc = "stop" /\ prog = "cpp" /\ i = Limit

\* C2: for n > 1, is_prime(n) returns true iff no integer of
\* 2..floor(sqrt(n)) divides n, both for the call executed step by step and
\* for the call as main evaluates it; 961 = 31 * 31 is rejected at i = 31.
C2_NoSmallDivisor ==
  /\ (fpc = "ret" /\ n > 1) => (ret <=> NoSmallDivisor(n))
  /\ n > 1 => (is_prime(n) <=> NoSmallDivisor(n))
  /\ (fpc = "ret" /\ n = 961) => (~ret /\ ip = 31)
  /\ (fpc = "ret" /\ n > 1 /\ RefFloorSqrt(n) * RefFloorSqrt(n) = n
        /\ RefPrime(RefFloorSqrt(n))) => (~ret /\ ip = RefFloorSqrt(n))

C2_Witness == fpc = "ret" /\ n = 961 /\ ~ret /\ remEvals = 30

\* C3: for n <= 1 (0, 1 and the negative integers) is_prime returns false
\* without having evaluated sqrt(n) or any remainder.
C3_RejectsBelowTwo ==
  /\ (fpc = "ret" /\ n <= 1) =>
        (~ret /\ sqrtEvals = 0 /\ remEvals = 0 /\ ip = 0)
  /\ n <= 1 => ~is_prime(n)

C3_Witness == fpc = "ret" /\ n = 1 /\ ~ret

\* C4: each program writes exactly two lines, the second of the form
\* "Time: <value> seconds" with exactly two decimal places.
C4_TwoDecimals ==
  pc = "done" =>
    /\ Len(out) = 2
    /\ out[2].label = "Time"
    /\ out[2].unit = "seconds"
    /\ Len(out[2].frac) = 2

\* C5: 999999 is tested and not added, 999983 is tested and added, and no
\* integer from 1,000,000 on is tested or added: every iteration tests the
\* candidate after the one before, is below 1,000,000, leaves the accumulator
\* alone at 999999 and adds at 999983; the loop is left only at 1,000,000;
\* outside the loop nothing is tested or added.
C5_UpperBoundary ==
  [][ /\ (pc = "loop" /\ pc' = "loop") =>
            /\ i < Limit
            /\ i' = i + 1
            /\ (i = 999999 => sum' = sum)
            /\ (i = 999983 => (sum' # sum /\ sum' = Add64(sum, 999983)))
      /\ (pc = "loop" /\ pc' # "loop") => i = Limit
      /\ AfterLoop => (i' = i /\ sum' = sum)
    ]_vars

C5_Witness == pc = "loop" /\ i = Limit /\ ~overflow

\* C6: is_prime(2) and is_prime(3) are true with the loop condition false at
\* the first test, and the accumulator is 2 after candidate 2 and 5 after
\* candidates 2 and 3.
C6_LowerBoundary ==
  /\ (pc = "loop" /\ i = 3) =>
        (is_prime(2) /\ ~LeqSqrt(2, 2) /\ sum = FromInt(2))
  /\ (pc = "loop" /\ i = 4) =>
        (is_prime(3) /\ ~LeqSqrt(2, 3) /\ sum = FromInt(5))

C6_Witness == pc = "loop" /\ i = 4 /\ sum = << 5, 0, 0, 0 >>

\* C7: the accumulator starts the loop at 0 and never decreases: an iteration
\* leaves it unchanged or makes it larger by the positive candidate i, and no
\* other step changes it.
C7_Monotone ==
  [][ /\ Leq64(sum, sum')
      /\ (pc = "init" /\ pc' = "loop") => sum' = Zero64
      /\ (pc = "loop" /\ pc' = "loop") =>
            \/ sum' = sum
            \/ i > 0 /\ sum' = Add64(sum, i) /\ ~Leq64(sum', sum)
      /\ ~(pc = "loop" /\ pc' = "loop") => sum' = sum
    ]_vars

C7_Witness == pc = "loop" /\ i = 8 /\ sum = << 17, 0, 0, 0 >>

\* C8: the accumulator never overflows and stays in [0, 2^36); its final value
\* is above 2^31 - 1; the loop variable can be incremented within int, and so
\* can the trial divisor of the call is_prime(i), which ends at most one above
\* the integer part of sqrt(i).
C8_NoOverflow ==
  /\ ~overflow
  /\ sum[4] = 0 /\ sum[3] < 16
  /\ AfterLoop => (sum[3] > 0 \/ sum[2] >= Limb \div 2)
  /\ i >= 0 /\ i < INT_MAX
  /\ (pc = "loop" /\ LoopGuard(i)) =>
        LET r == sqrt(i) IN ~r.nan /\ r.whole >= 1 /\ r.whole < INT_MAX

C8_Witness == pc = "done" /\ sum[3] = 8 /\ ~overflow

\* C9: the start timestamp is taken before the first candidate is tested, the
\* end timestamp after candidate 999999 and before any output, "Sum" is
\* printed before "Time", and nothing is printed while the loop runs.
C9_EventOrder ==
  /\ pc = "start" <=> start = NoTime
  /\ pc \in {"start", "init", "loop", "stop"} <=> end = NoTime
  /\ end # NoTime => i = Limit
  /\ pc \in {"start", "init", "loop", "stop", "print_sum"} <=> out = << >>
  /\ pc = "print_time" => (Len(out) = 1 /\ out[1].label = "Sum")
  /\ pc = "done" =>
        (Len(out) = 2 /\ out[1].label = "Sum" /\ out[2].label = "Time")

C9_Witness == pc = "done" /\ prog = "c" /\ Len(out) = 2 /\ end > start

\* C10: candidates are tested in ascending order, each of 2..999,999 once; at
\* the loop head with loop variable i the accumulator is the sum of the primes
\* p with 2 <= p < i; the loop ends with i = 1,000,000.  The sum is stated by
\* induction on i (0 at i = 2, and one iteration adds i exactly when
\* is_prime accepts i), and in closed form, with the primes taken from their
\* definition, at the loop heads up to PrefixCheck.
C10_LoopInvariant ==
  [][ /\ pc' = "loop" => i' \in 2..Limit
      /\ (pc = "init" /\ pc' = "loop") => (i' = 2 /\ sum' = Zero64)
      /\ (pc = "loop" /\ pc' = "loop") =>
            /\ i' = i + 1
            /\ sum' = IF i \in Accepted THEN Add64(sum, i) ELSE sum
      /\ (pc = "loop" /\ pc' # "loop") => (i = Limit /\ i' = i /\ sum' = sum)
      /\ (pc' = "loop" /\ i' <= PrefixCheck) =>
            (sum' = FromInt(RefPrimeSum(i')) /\ (i' - 1 \in Accepted <=> RefPrime(i' - 1)))
    ]_vars

C10_Witness == pc = "stop" /\ i = Limit /\ prog = "c"

====
